---- MODULE Spec2Model ----
(***************************************************************************)
(* Code judging core of the learning platform backend:                     *)
(*   - app/api/problems.py : MultiLangExecutor, submit_solution,           *)
(*                           submit_module_solution                        *)
(*   - app/api/practice.py : CodeExecutor.execute_python, evaluate_verdict,*)
(*                           submit_code                                   *)
(*   - app/api/compete.py  : get_contest_safe, submit_contest_solution     *)
(*                           disqualify_user, get_contests,                *)
(*                           finalize_contest                              *)
(*   - app/core/scheduler.py : ContestScheduler                            *)
(*                                                                         *)
(* Text is modelled as a sequence of tokens.  A token is either a single   *)
(* character of program output (" ", "a", "b") or one of the phrases the   *)
(* code searches for ("import os", "Time Limit", ...).  `x in s` of the    *)
(* source is Contains(s, x); s.strip() is Strip(s); s.lower() is Lower(s). *)
(* Optional[str] is a record [some, val].                                  *)
(***************************************************************************)
EXTENDS Integers, Sequences, FiniteSets, TLC

\* ------------------------------------------------------------------ bounds
MaxTests == 4
MaxGenerated == 3
MaxClock == 4
MaxSubs == 2
NumRequests == 2
MaxFinalizations == 2
MaxRemoteTests == 2

\* ------------------------------------------------------- program constants
TIME_LIMIT == 5
TIME_LIMIT_SECONDS == 5
ErrLimit == 1000
ContestErrLimit == 200
EarlyStopIndex == 2
PenaltyPerWrong == 20
SecondsPerMinute == 60
SecondsPerTick == 30
MAX_ATTEMPTS == 10
POLL_MAX_ATTEMPTS == 20
FirstPlaceXp == 150
FirstPlaceCoins == 75
XpPerLevel == 100

\* --------------------------------------------------------------- text model
Whitespace == {" "}

None == [some |-> FALSE, val |-> <<>>]

Some(s) == [some |-> TRUE, val |-> s]

Truthy(o) == o.some /\ o.val # <<>>

Contains(s, tok) == \E k \in 1..Len(s) : s[k] = tok

LowerTok(t) ==
  CASE t = "Import OS" -> "import os"
    [] t = "Python" -> "python"
    [] OTHER -> t

Lower(s) == [k \in 1..Len(s) |-> LowerTok(s[k])]

RECURSIVE LStrip(_)
LStrip(s) == IF s # <<>> /\ Head(s) \in Whitespace THEN LStrip(Tail(s)) ELSE s

RECURSIVE RStrip(_)
RStrip(s) ==
  IF s # <<>> /\ s[Len(s)] \in Whitespace
  THEN RStrip(SubSeq(s, 1, Len(s) - 1))
  ELSE s

Strip(s) == RStrip(LStrip(s))

Truncate(s, n) == IF Len(s) <= n THEN s ELSE SubSeq(s, 1, n)

Max(a, b) == IF a >= b THEN a ELSE b

RECURSIVE SumTimes(_)
SumTimes(rs) ==
  IF rs = <<>> THEN 0 ELSE rs[1].execution_time_ms + SumTimes(Tail(rs))

RECURSIVE CountPassed(_)
CountPassed(rs) ==
  IF rs = <<>> THEN 0
  ELSE (IF rs[1].passed THEN 1 ELSE 0) + CountPassed(Tail(rs))

\* ------------------------------------------------------------------ inputs
\* Source texts a user may submit.
Codes ==
  { <<"print">>,
    <<"import os", "print">>,
    <<"print", "Import OS">>,
    <<"import subprocess">>,
    <<"#error">> }

\* The (language, code) pairs sent to submit_solution and
\* submit_module_solution: the denylist is looked at for Python only.
Submissions ==
  {<<"python", c>> : c \in Codes \ {<<"#error">>}}
    \cup {<<"cpp", c>> : c \in {<<"print">>, <<"import os", "print">>,
                                <<"#error">>}}
    \cup {<<"javascript", <<"print">> >>, <<"ruby", <<"print">> >>}

\* The (language, code) pairs sent to submit_contest_solution.
ContestSubmissions ==
  { <<"python", <<"import os", "print">> >>,
    <<"cpp", <<"print">> >>,
    <<"cpp", <<"#error">> >>,
    <<"javascript", <<"print">> >>,
    <<"ruby", <<"print">> >> }

\* The (language, source_code) pairs sent to practice submit_code, which
\* runs every one of them with the Python interpreter.
PracticeSubmissions ==
  {<<"python3", c>> : c \in Codes} \cup {<<"cpp", <<"print">> >>}

\* What a program may write to stdout.
Stdouts == { <<"a">>, <<" ", "a", " ">>, <<"b">> }

\* What a program or the compiler may write to stderr.
Stderrs == { <<>>, <<"Traceback">>, <<"Runtime">> }

\* What the compiler may write to stderr: its diagnostics quote the source.
CompilerStderrs == { <<"error:">>, <<"error:", "Time Limit">> }

\* Wall-clock milliseconds measured around a finished process.
ExecTimes == {3}

\* The problem bank: test case k of every problem (fetch order).
BankCase(k) ==
  [input |-> <<"in", k>>, output |-> IF k % 2 = 1 THEN <<"a">> ELSE <<"b">>]

Bank(n) == [k \in 1..n |-> BankCase(k)]

\* Outcomes of one child process, as the host produces them.
RunOutcomes ==
  [kind : {"exit0"}, stdout : Stdouts, stderr : {<<>>}, ms : ExecTimes]
  \cup [kind : {"exitN"}, stdout : Stdouts, stderr : Stderrs, ms : ExecTimes]
  \cup [kind : {"timeout"}, stdout : {<<>>}, stderr : {<<>>}, ms : {0}]

CompileOutcomes ==
  [kind : {"compile_fail"}, stdout : {<<>>}, stderr : CompilerStderrs, ms : {0}]
  \cup [kind : {"compile_timeout"}, stdout : {<<>>}, stderr : {<<>>}, ms : {0}]

NoProcess == [kind |-> "none", stdout |-> <<>>, stderr |-> <<>>, ms |-> 0]

\* A C++ source compiles unless it holds an #error directive.
CompilesOK(c) == ~Contains(c, "#error")

\* ------------------------------------------------ problems.py: the executor
PyForbidden ==
  << "import os", "import sys", "import subprocess", "__import__",
     "eval(", "exec(", "open(" >>

\* First entry of a denylist found in the lowered source, 0 when none is.
FirstForbidden(list, c) ==
  LET hits == {k \in 1..Len(list) : Contains(Lower(c), list[k])}
  IN IF hits = {} THEN 0 ELSE CHOOSE k \in hits : \A m \in hits : k <= m

ExecResult(out, err, ms, st, n, ex) ==
  [output |-> out, error |-> err, execution_time_ms |-> ms, status |-> st,
   spawned |-> n, raised |-> ex]

\* The part shared by the three strategies once the program has been spawned.
RunProgram(o, emptyErr, n) ==
  CASE o.kind = "exit0" ->
         ExecResult(Strip(o.stdout), None, o.ms, "success", n, FALSE)
    [] o.kind = "exitN" ->
         ExecResult(<<>>,
                    Some(IF Truncate(o.stderr, ErrLimit) = <<>>
                         THEN emptyErr ELSE Truncate(o.stderr, ErrLimit)),
                    o.ms, "error", n, FALSE)
    [] OTHER ->
         ExecResult(<<>>, Some(<<"Time Limit", " Exceeded">>),
                    TIME_LIMIT * 1000, "timeout", n, FALSE)

\* tools: is the interpreter / compiler of the language installed on the host
ExecutePython(c, o, tools) ==
  LET f == FirstForbidden(PyForbidden, c)
  IN IF f # 0
     THEN ExecResult(<<>>, Some(<<"Forbidden: ", PyForbidden[f]>>), 0, "error",
                     0, FALSE)
     ELSE IF ~tools
          THEN ExecResult(<<>>, None, 0, "error", 0, TRUE)
          ELSE RunProgram(o, <<>>, 1)

ExecuteCpp(c, o, tools) ==
  IF ~tools
  THEN ExecResult(<<>>, Some(<<"C++ compiler (g++) not found.">>), 0, "error",
                  0, FALSE)
  ELSE CASE o.kind = "compile_fail" ->
              ExecResult(<<>>,
                         Some(<<"Compilation", " Error:">>
                              \o Truncate(o.stderr, ErrLimit)),
                         0, "compile_error", 1, FALSE)
         [] o.kind = "compile_timeout" ->
              ExecResult(<<>>, Some(<<"Time Limit", " Exceeded">>),
                         TIME_LIMIT * 1000, "timeout", 1, FALSE)
         [] OTHER -> RunProgram(o, <<"Runtime", " Error">>, 2)

ExecuteJavascript(c, o, tools) ==
  IF ~tools
  THEN ExecResult(<<>>, Some(<<"Node.js not found.">>), 0, "error", 0, FALSE)
  ELSE RunProgram(o, <<>>, 1)

Execute(c, lang, o, tools) ==
  CASE lang = "python" -> ExecutePython(c, o, tools)
    [] lang = "cpp" -> ExecuteCpp(c, o, tools)
    [] lang = "javascript" -> ExecuteJavascript(c, o, tools)
    [] OTHER ->
         ExecResult(<<>>, Some(<<"Unsupported language: ", lang>>), 0, "error",
                    0, FALSE)

\* The outcomes the host can produce for one call of the executor.
HostOutcomes(c, lang, tools) ==
  IF ~tools \/ lang \notin {"python", "cpp", "javascript"} THEN {NoProcess}
  ELSE IF lang = "python" /\ FirstForbidden(PyForbidden, c) # 0
       THEN {NoProcess}
       ELSE IF lang = "cpp"
            THEN IF CompilesOK(c)
                 THEN RunOutcomes \cup {o \in CompileOutcomes :
                                          o.kind = "compile_timeout"}
                 ELSE CompileOutcomes
            ELSE RunOutcomes

\* -------------------------------------------------------------------- state
VARIABLES
  workload,      \* which route the request under analysis goes to
  handler,       \* the route handler serving it
  pc,            \* position of the handler
  code,          \* request.code / request.source_code
  language,      \* request.language
  is_oop,        \* problem_id.startswith('oop-')
  tools,         \* interpreter / compiler of the language is installed
  test_cases,    \* problem["test_cases"], in fetch order
  i,             \* loop index of the test-case loop (0-based)
  test_results,  \* outcomes recorded so far
  total_time,    \* total_time / total_execution_time
  all_passed,    \* all_passed flag of problems.py
  executions,    \* number of executor calls made by the handler
  spawned,       \* child processes spawned by the handler
  early_stopped, \* the loop left through the early-stop break
  response,      \* what the handler returned
  host_log,      \* what the host did on each executor call (observation)
  now,           \* the wall clock, in ticks of SecondsPerTick seconds
  contest,       \* the stored Contest document
  participation, \* the stored ContestParticipation document of the user
  creq,          \* the submit_contest_solution requests, by request slot
  cresp,         \* what submit_contest_solution returned last
  submission,    \* the stored Submission document of submit_challenge
  attempt,       \* polls made for the remote submission being awaited
  remote,        \* the remote judging service as the client has used it
  call,          \* one call of an execution strategy: its files and children
  user,          \* the stored User document of the participant
  audit,         \* what has happened to the participation (observation)
  fin,           \* the finalizations in progress, by slot
  sched          \* the pass of ContestScheduler.update_contest_statuses

judgeVars ==
  <<workload, handler, pc, code, language, is_oop, tools, test_cases, i,
    test_results, total_time, all_passed, executions, spawned, early_stopped,
    response, host_log>>

contestVars == <<now, contest, participation, creq, cresp>>

remoteVars == <<submission, attempt, remote>>

execVars == <<call>>

adminVars == <<user, audit, fin, sched>>

vars == <<judgeVars, contestVars, remoteVars, execVars, adminVars>>

NoResponse ==
  [http |-> 0, verdict |-> "", passed_tests |-> 0, total_tests |-> 0,
   execution_time_ms |-> 0, test_results |-> <<>>]

ResponseLimit == 5

\* What the host did on one executor call: how the process ended, the status
\* the executor reported, and whether the text the program wrote to stdout
\* equals the expected output after trimming.
Observed(o, r, tc) ==
  [kind |-> o.kind, status |-> IF "status" \in DOMAIN r THEN r.status ELSE "",
   match |-> LStrip(RStrip(o.stdout)) = LStrip(RStrip(tc.output))]

\* ------------------------------------- problems.py: the two submit handlers
TestResult(k, tc, r) ==
  LET expected == Strip(tc.output)
      actual == Strip(r.output)
      passed == r.status = "success" /\ actual = expected
  IN [test_number |-> k + 1,
      passed |-> passed,
      input_data |-> tc.input,
      expected_output |-> expected,
      actual_output |-> IF r.status = "success" THEN Some(actual) ELSE None,
      execution_time_ms |-> r.execution_time_ms,
      error |-> r.error]

SkippedResult(j, tc) ==
  [test_number |-> j + 1,
   passed |-> FALSE,
   input_data |-> tc.input,
   expected_output |-> tc.output,
   actual_output |-> None,
   execution_time_ms |-> 0,
   error |-> Some(<<"Skipped due to previous failure">>)]

\* Variant: the skip loop starts at the failing test case itself.
SkippedTailFromCurrent(k, tcs) ==
  [m \in 1..(Len(tcs) - (k + 1)) |-> SkippedResult(k + m, tcs[k + m])]

\* range(i + 1, len(test_cases)) of the skip loop, as a sequence of results
SkippedTail(k, tcs) ==
  [m \in 1..(Len(tcs) - (k + 1)) |-> SkippedResult(k + m, tcs[k + 1 + m])]

\* Variant: the threshold compared one too late.
StopsEarlyLate(passed, k) == ~passed /\ k > EarlyStopIndex

\* Variant: no early stop at all.
StopsEarlyNever(passed, k) == FALSE

\* The early-stop test at the end of one loop iteration.
StopsEarly(passed, k) == ~passed /\ k >= EarlyStopIndex

\* Variant: the verdict looks at the last recorded outcome only.
JudgeVerdictLastOnly(allp, rs) ==
  IF rs # <<>> /\ rs[Len(rs)].passed THEN "AC" ELSE "WA"

\* Variant: the error text is never searched for "Time Limit".
JudgeVerdictNoTimeLimit(allp, rs) ==
  IF allp THEN "AC"
  ELSE IF \E k \in 1..Len(rs) :
            Truthy(rs[k].error) /\ Contains(rs[k].error.val, "Compilation")
       THEN "CE"
       ELSE "WA"

JudgeVerdict(allp, rs) ==
  IF allp THEN "AC"
  ELSE IF \E k \in 1..Len(rs) :
            Truthy(rs[k].error) /\ Contains(rs[k].error.val, "Time Limit")
       THEN "TLE"
       ELSE IF \E k \in 1..Len(rs) :
                 Truthy(rs[k].error) /\ Contains(rs[k].error.val, "Compilation")
            THEN "CE"
            ELSE IF \E k \in 1..Len(rs) :
                      Truthy(rs[k].error) /\ Contains(rs[k].error.val, "Runtime")
                 THEN "RE"
                 ELSE "WA"

\* Variant: total_tests counts the outcomes that are not skip records.
SubmissionResultExecutedOnly(allp, rs, tcs, time) ==
  [http |-> 200,
   verdict |-> JudgeVerdict(allp, rs),
   passed_tests |-> CountPassed(rs),
   total_tests |->
     Cardinality({k \in 1..Len(rs) :
        rs[k].error # Some(<<"Skipped due to previous failure">>)}),
   execution_time_ms |-> time,
   test_results |-> Truncate(rs, ResponseLimit)]

SubmissionResult(allp, rs, tcs, time) ==
  [http |-> 200,
   verdict |-> JudgeVerdict(allp, rs),
   passed_tests |-> CountPassed(rs),
   total_tests |-> Len(tcs),
   execution_time_ms |-> time,
   test_results |-> Truncate(rs, ResponseLimit)]

\* submit_module_solution: the OOP check that precedes the test loop
OopRejected(tcs) ==
  [http |-> 200, verdict |-> "WA", passed_tests |-> 0, total_tests |-> Len(tcs),
   execution_time_ms |-> 0, test_results |-> <<>>]

SubmitBegin ==
  /\ workload = "problems"
  /\ pc = "idle"
  /\ \E valid \in BOOLEAN :
       IF handler = "submit_module_solution" /\ is_oop /\ ~valid
       THEN /\ pc' = "returned"
            /\ response' = OopRejected(test_cases)
       ELSE /\ (handler = "submit_module_solution" /\ is_oop) \/ valid
            /\ pc' = "loop"
            /\ response' = response
  /\ UNCHANGED <<workload, handler, code, language, is_oop, tools, test_cases,
                 i, test_results, total_time, all_passed, executions, spawned,
                 early_stopped, host_log, contestVars, remoteVars, execVars,
                 adminVars>>

\* One iteration of `for i, tc in enumerate(test_cases)`; the iteration that
\* leaves the loop also computes the verdict and returns.
JudgeTestCase ==
  /\ workload = "problems"
  /\ pc = "loop"
  /\ \E o \in HostOutcomes(code, language, tools) :
       LET r == Execute(code, language, o, tools)
           tr == TestResult(i, test_cases[i + 1], r)
           stop == StopsEarly(tr.passed, i)
           rs == IF stop
                 THEN Append(test_results, tr) \o SkippedTail(i, test_cases)
                 ELSE Append(test_results, tr)
           allp == all_passed /\ tr.passed
           time == total_time + r.execution_time_ms
           last == stop \/ i + 1 = Len(test_cases)
       IN /\ executions' = executions + 1
          /\ spawned' = spawned + r.spawned
          /\ host_log' = Append(host_log, Observed(o, r, test_cases[i + 1]))
          /\ IF r.raised
             THEN /\ pc' = "raised"
                  /\ response' = [NoResponse EXCEPT !.http = 500]
                  /\ UNCHANGED <<i, test_results, total_time, all_passed,
                                 early_stopped>>
             ELSE /\ test_results' = rs
                  /\ all_passed' = allp
                  /\ total_time' = time
                  /\ early_stopped' = stop
                  /\ i' = IF last THEN i ELSE i + 1
                  /\ pc' = IF last THEN "returned" ELSE "loop"
                  /\ response' = IF last
                                 THEN SubmissionResult(allp, rs, test_cases, time)
                                 ELSE response
  /\ UNCHANGED <<workload, handler, code, language, is_oop, tools, test_cases,
                 contestVars, remoteVars, execVars,
                 adminVars>>

\* ------------------------------------------- code.py, judge0.py: the state
NoSubmission ==
  [status |-> "none", passed_tests |-> 0, total_tests |-> 0,
   test_results |-> <<>>, error_message |-> None]

\* created: remote submissions created; refused: the service answered a
\* create or a poll with a non-success HTTP status; exhausted: the last
\* allowed poll still found the submission queued or processing
UnusedRemote == [created |-> 0, refused |-> FALSE, exhausted |-> FALSE]

RemoteAtRest ==
  /\ submission = NoSubmission
  /\ attempt = 0
  /\ remote = UnusedRemote

\* -------------------------------- one call of a local execution strategy
\* files: the temporary files that exist; known: the file names the finally
\* clause holds; procs: the children that are running; leaving: how the try
\* block is being left
NoCall ==
  [files |-> {}, known |-> {}, procs |-> {}, hangs |-> FALSE,
   leaving |-> "none"]

ExecAtRest == call = NoCall

\* ------------------------------------------------- compete.py: the User
NoUser ==
  [xp |-> 0, level |-> 1, coins |-> 0, total_contests_participated |-> 0]

\* User.add_xp: at most one level is gained per call
AddXp(u, amount) ==
  IF u.xp + amount >= u.level * XpPerLevel
  THEN [u EXCEPT !.level = @ + 1,
                 !.xp = u.xp + amount - u.level * XpPerLevel]
  ELSE [u EXCEPT !.xp = @ + amount]

\* committed: calls of submit_contest_solution that saved and returned;
\* disqualified, at, reason: the first disqualification that was saved
\* finalizations: finalizations begun
NoAudit ==
  [committed |-> 0, disqualified |-> FALSE, at |-> -1, reason |-> "",
   finalizations |-> 0]

\* status "none": the contest has not been created
NoContest ==
  [status |-> "none", start_time |-> 0, end_time |-> 0,
   is_results_published |-> FALSE]

\* disqualified_at: -1 for None; disqualification_reason: "" for None
NoParticipation ==
  [exists |-> FALSE, is_disqualified |-> FALSE, disqualified_at |-> -1,
   disqualification_reason |-> "",
   problem_submissions |-> <<>>, total_points |-> 0, total_penalty |-> 0,
   problems_solved |-> 0]

\* the request of get_contests and the request of finalize_contest
Finalizers == {"auto", "admin"}

\* contest, part: the documents as the finalization read them
IdleFinalizer ==
  [pc |-> "idle", kind |-> "none", contest |-> NoContest,
   part |-> NoParticipation]

\* now: the time the pass captured; found, contest: the answer of its last
\* query; last: how the last pass ended; existed: the contest was stored
\* when the pass began
NoSched ==
  [pc |-> "idle", now |-> 0, found |-> FALSE, contest |-> NoContest,
   last |-> "none", existed |-> FALSE]

AdminAtRest ==
  /\ user = NoUser
  /\ audit = NoAudit
  /\ fin = [f \in Finalizers |-> IdleFinalizer]
  /\ sched = NoSched

\* ------------------------------------- compete.py: submit_contest_solution
Requests == 1..NumRequests

ProblemPoints == 100

EndTime == MaxClock

\* contest.problems: the first carries its test cases inline, the second only
\* a challenge_id that is looked up in CP_PROBLEMS, the third has neither
ContestProblems ==
  << [points |-> ProblemPoints, test_cases |-> Bank(2), challenge_id |-> "cp-1"],
     [points |-> ProblemPoints, test_cases |-> <<>>, challenge_id |-> "cp-2"],
     [points |-> ProblemPoints, test_cases |-> <<>>, challenge_id |-> ""] >>

CpProblemTests(id) == IF id = "cp-2" THEN Bank(1) ELSE <<>>

\* problem.test_cases or the bank's, lines 741-749
ContestTestCases(p) ==
  LET problem == ContestProblems[p + 1]
  IN IF problem.test_cases = <<>> /\ problem.challenge_id # ""
     THEN CpProblemTests(problem.challenge_id)
     ELSE problem.test_cases

\* part: the ContestParticipation document as the request read it
IdleRequest ==
  [pc |-> "idle", problem_index |-> 0, k |-> 0,
   passed |-> 0, total |-> 0, errors |-> <<>>, spawned |-> 0,
   all_match |-> TRUE, all_exit0 |-> TRUE, part |-> NoParticipation]

\* HTTP status and the `passed` flag (is_accepted) of the returned body
NoContestResponse == [http |-> 0, accepted |-> FALSE]

ContestAtRest ==
  /\ now = 0
  /\ contest = NoContest
  /\ participation = NoParticipation
  /\ creq = [r \in Requests |-> IdleRequest]
  /\ cresp = NoContestResponse

\* get_contest_safe: the status the contest is given at time t
SafeStatus(c, t) ==
  IF c.status = "upcoming" /\ t >= c.start_time
  THEN (IF t < c.end_time THEN "ongoing" ELSE "completed")
  ELSE IF c.status = "ongoing" /\ t >= c.end_time
       THEN "completed"
       ELSE c.status

\* Variant: the difference is not converted to minutes.
TimeFromStartRaw(t, start) == (t - start) * SecondsPerTick

\* int((submission_time - contest_start).total_seconds() / 60)
TimeFromStart(t, start) == ((t - start) * SecondsPerTick) \div SecondsPerMinute

\* Variant: the lookup never finds a record.
ExistingAcceptedNever(subs, p) == FALSE

ExistingAccepted(subs, p) ==
  \E k \in 1..Len(subs) : subs[k].problem_order = p /\ subs[k].accepted

\* Variant: wrong attempts are counted over all problems.
WrongAttemptsAnyProblem(subs, p) ==
  Cardinality({k \in 1..Len(subs) : ~subs[k].accepted})

WrongAttempts(subs, p) ==
  Cardinality({k \in 1..Len(subs) :
                 subs[k].problem_order = p /\ ~subs[k].accepted})

IsAccepted(passed, total) == passed = total /\ total > 0

\* The outcomes the host can produce for one test case of a contest run.
ContestOutcomes(lang, c, installed) ==
  IF ~installed THEN {NoProcess}
  ELSE IF lang = "cpp"
       THEN IF CompilesOK(c)
            THEN RunOutcomes \cup {o \in CompileOutcomes :
                                     o.kind = "compile_timeout"}
            ELSE CompileOutcomes
       ELSE RunOutcomes

\* Variant: the exit status of the program is not looked at.
ContestRunAnyExit(lang, o, tc, installed) ==
  [passed |-> IF installed /\ o.kind \in {"exit0", "exitN"}
                 /\ Strip(o.stdout) = Strip(tc.output)
              THEN 1 ELSE 0,
   errors |-> <<>>,
   spawned |-> IF installed THEN 1 ELSE 0]

\* What one pass through the body of `for tc in test_cases` adds:
\* to passed, to errors, and to the number of child processes.
ContestRun(lang, o, tc, installed) ==
  IF ~installed
  THEN [passed |-> 0, errors |-> <<<<"No such file or directory">>>>,
        spawned |-> 0]
  ELSE CASE o.kind = "compile_fail" ->
              [passed |-> 0,
               errors |-> << <<"Compilation", " error: ">>
                             \o Truncate(o.stderr, ContestErrLimit) >>,
               spawned |-> 1]
         [] o.kind \in {"compile_timeout", "timeout"} ->
              [passed |-> 0, errors |-> <<<<"Time limit exceeded">>>>,
               spawned |-> IF lang = "cpp" /\ o.kind = "timeout" THEN 2 ELSE 1]
         [] o.kind = "exit0" ->
              [passed |-> IF Strip(o.stdout) = Strip(tc.output) THEN 1 ELSE 0,
               errors |-> <<>>,
               spawned |-> IF lang = "cpp" THEN 2 ELSE 1]
         [] OTHER ->
              [passed |-> 0,
               errors |-> << IF o.stderr # <<>>
                             THEN Truncate(o.stderr, ContestErrLimit)
                             ELSE <<"Runtime", " error">> >>,
               spawned |-> IF lang = "cpp" THEN 2 ELSE 1]

\* raise HTTPException(status_code=status): the request ends before the loop
Reject(r, status) ==
  /\ creq' = [creq EXCEPT ![r] = IdleRequest]
  /\ cresp' = [NoContestResponse EXCEPT !.http = status]

\* request["problem_index"]; the concurrent requests all go to the problem
\* that has one test case
ProblemChoices ==
  IF workload = "race" THEN {1} ELSE -1..Len(ContestProblems)

\* Lines 708-756: the checks that precede the test-case loop.
ContestBegin(r) ==
  /\ workload \in {"contest", "race"}
  /\ creq[r].pc = "idle"
  /\ Len(participation.problem_submissions) < MaxSubs
  /\ contest' = [contest EXCEPT !.status = SafeStatus(contest, now)]
  /\ \E p \in ProblemChoices :
       IF contest'.status # "ongoing" \/ now >= contest.end_time
       THEN Reject(r, 400)
       ELSE IF ~participation.exists \/ participation.is_disqualified
            THEN Reject(r, 403)
            ELSE IF language \notin {"python", "cpp", "javascript"}
                    \/ p < 0 \/ p >= Len(ContestProblems)
                 THEN Reject(r, 400)
                 ELSE IF ContestTestCases(p) = <<>>
                      THEN Reject(r, 400)
                      ELSE /\ creq' = [creq EXCEPT ![r] =
                                [IdleRequest EXCEPT
                                   !.pc = "loop", !.problem_index = p,
                                   !.total = Len(ContestTestCases(p)),
                                   !.part = participation]]
                           /\ UNCHANGED cresp
  /\ UNCHANGED <<remoteVars, execVars, adminVars, judgeVars, now, participation>>

\* The sequential workload: a request starts when no other is in flight,
\* and is given the free slot with the lowest number.
ContestBeginSeq(r) ==
  /\ workload = "contest"
  /\ \A q \in Requests : creq[q].pc = "idle"
  /\ \A q \in Requests : q < r => creq[q].pc # "idle"
  /\ ContestBegin(r)

\* The concurrent workload: a request starts whatever the others do.
ContestBeginAny(r) ==
  /\ workload = "race"
  /\ audit.committed + Cardinality({q \in Requests : creq[q].pc # "idle"})
       < MaxSubs
  /\ ContestBegin(r)

\* One pass through the body of `for tc in test_cases`.
ContestTestCase(r) ==
  /\ workload \in {"contest", "race"}
  /\ creq[r].pc = "loop"
  /\ \E o \in ContestOutcomes(language, code, tools) :
       LET q == creq[r]
           tc == ContestTestCases(q.problem_index)[q.k + 1]
           run == ContestRun(language, o, tc, tools)
           last == q.k + 1 = q.total
       IN creq' = [creq EXCEPT ![r] =
            [q EXCEPT !.k = q.k + 1,
                      !.passed = q.passed + run.passed,
                      !.errors = q.errors \o run.errors,
                      !.spawned = q.spawned + run.spawned,
                      !.all_match = q.all_match
                                    /\ Observed(o, run, tc).match,
                      !.all_exit0 = q.all_exit0 /\ o.kind = "exit0",
                      !.pc = IF last THEN "judged" ELSE "loop"]]
  /\ UNCHANGED <<remoteVars, execVars, adminVars, judgeVars, now, contest, participation, cresp>>

\* Lines 846-904: the penalty overlay and the save of the participation.
\* The handler works on the participation it read at the start, and
\* participation.save() writes every field of that document.
ContestFinish(r) ==
  /\ workload \in {"contest", "race"}
  /\ creq[r].pc = "judged"
  /\ LET q == creq[r]
         p == q.problem_index
         is_accepted == IsAccepted(q.passed, q.total)
         points == IF is_accepted THEN ContestProblems[p + 1].points ELSE 0
         time_from_start == TimeFromStart(now, contest.start_time)
         subs == q.part.problem_submissions
         sub_record ==
           [problem_order |-> p, language |-> language, passed |-> q.passed,
            total |-> q.total, accepted |-> is_accepted, points |-> points,
            penalty_minutes |-> time_from_start]
         first == ~ExistingAccepted(subs, p) /\ is_accepted
     IN /\ participation' =
             [q.part EXCEPT
                !.problem_submissions = Append(subs, sub_record),
                !.total_points = IF first THEN @ + points ELSE @,
                !.problems_solved = IF first THEN @ + 1 ELSE @,
                !.total_penalty =
                   IF first
                   THEN @ + time_from_start
                          + WrongAttempts(subs, p) * PenaltyPerWrong
                   ELSE @]
        /\ creq' = [creq EXCEPT ![r] = IdleRequest]
        /\ cresp' = [http |-> 200, accepted |-> is_accepted]
        /\ audit' = [audit EXCEPT !.committed = @ + 1]
  /\ UNCHANGED <<remoteVars, execVars, user, fin, sched, judgeVars, now, contest>>

\* request["reason"] of disqualify_user
Reasons == {"Tab switch violation", "Copied code"}

\* the reasons the requests under analysis carry
ReasonChoices ==
  IF workload = "race" THEN Reasons ELSE {"Tab switch violation"}

\* disqualify_user, for the participant themselves or by an admin.  The
\* requests under analysis are made while the contest runs.
DisqualifyUser ==
  /\ workload \in {"race", "lifecycle"}
  /\ SafeStatus(contest, now) = "ongoing"
  /\ contest' = [contest EXCEPT !.status = SafeStatus(contest, now)]
  /\ \E reason \in ReasonChoices :
       IF ~participation.exists
       THEN /\ cresp' = [NoContestResponse EXCEPT !.http = 404]
            /\ UNCHANGED <<participation, audit>>
       ELSE IF participation.is_disqualified
            THEN /\ cresp' = [NoContestResponse EXCEPT !.http = 200]
                 /\ UNCHANGED <<participation, audit>>
            ELSE /\ participation' =
                      [participation EXCEPT
                         !.is_disqualified = TRUE,
                         !.disqualified_at = now,
                         !.disqualification_reason = reason,
                         !.total_points = 0,
                         !.problems_solved = 0]
                 /\ audit' = IF audit.disqualified THEN audit
                             ELSE [audit EXCEPT !.disqualified = TRUE,
                                                !.at = now,
                                                !.reason = reason]
                 /\ cresp' = [NoContestResponse EXCEPT !.http = 200]
  /\ UNCHANGED <<remoteVars, execVars, user, fin, sched, judgeVars, now, creq>>

\* ------------------- compete.py: create_contest, register_for_contest
\* request.start_time and request.duration_minutes of create_contest
ContestStart == 1

DurationMinutes == 1

\* create_contest: any start_time is accepted, one in the past as well; the
\* document is inserted with the default status.
CreateContest ==
  /\ workload = "lifecycle"
  /\ contest.status = "none"
  /\ contest' =
       [NoContest EXCEPT
          !.status = "upcoming",
          !.start_time = ContestStart,
          !.end_time = ContestStart
                       + (DurationMinutes * SecondsPerMinute) \div SecondsPerTick]
  /\ UNCHANGED <<remoteVars, execVars, adminVars, judgeVars, now,
                 participation, creq, cresp>>

\* register_for_contest: only while the contest is upcoming.
RegisterForContest ==
  /\ workload = "lifecycle"
  /\ contest.status # "none"
  /\ contest' = [contest EXCEPT !.status = SafeStatus(contest, now)]
  /\ participation' =
       IF participation.exists \/ contest'.status # "upcoming"
       THEN participation
       ELSE [NoParticipation EXCEPT !.exists = TRUE]
  /\ UNCHANGED <<remoteVars, execVars, adminVars, judgeVars, now, creq, cresp>>

\* ------------- compete.py: get_contests, _auto_finalize_contest,
\* finalize_contest
\* The two update_many calls of get_contests, lines 231-232.
BulkStatus(c, t) ==
  LET started == IF c.status = "upcoming" /\ c.start_time <= t /\ c.end_time > t
                 THEN "ongoing"
                 ELSE c.status
  IN IF started \in {"upcoming", "ongoing"} /\ c.end_time <= t
     THEN "completed"
     ELSE started

\* get_contests: the bulk updates, then the query for completed contests
\* whose results are not published; the contest found is finalized from the
\* document the query returned.
GetContests ==
  /\ workload = "lifecycle"
  /\ contest.status # "none"
  /\ fin["auto"].pc = "idle"
  /\ contest' = [contest EXCEPT !.status = BulkStatus(contest, now)]
  /\ IF contest'.status = "completed" /\ ~contest'.is_results_published
     THEN /\ audit.finalizations < MaxFinalizations
          /\ fin' = [fin EXCEPT !["auto"] =
                       [IdleFinalizer EXCEPT !.pc = "rank", !.kind = "auto",
                                             !.contest = contest']]
          /\ audit' = [audit EXCEPT !.finalizations = @ + 1]
     ELSE UNCHANGED <<fin, audit>>
  /\ UNCHANGED <<remoteVars, execVars, user, sched, judgeVars, now,
                 participation, creq, cresp>>

\* finalize_contest, lines 915-921: get_contest_safe and the check of
\* is_results_published.
FinalizeContest ==
  /\ workload = "lifecycle"
  /\ contest.status # "none"
  /\ fin["admin"].pc = "idle"
  /\ contest' = [contest EXCEPT !.status = SafeStatus(contest, now)]
  /\ IF contest.is_results_published
     THEN UNCHANGED <<fin, audit>>
     ELSE /\ audit.finalizations < MaxFinalizations
          /\ fin' = [fin EXCEPT !["admin"] =
                       [IdleFinalizer EXCEPT !.pc = "rank", !.kind = "admin",
                                             !.contest = contest']]
          /\ audit' = [audit EXCEPT !.finalizations = @ + 1]
  /\ UNCHANGED <<remoteVars, execVars, user, sched, judgeVars, now,
                 participation, creq, cresp>>

\* The ContestParticipation query of a finalization.  Without participants
\* _auto_finalize_contest publishes at once and finalize_contest answers 400.
FinRank(f) ==
  /\ fin[f].pc = "rank"
  /\ IF participation.exists
     THEN /\ fin' = [fin EXCEPT ![f].pc = "reward", ![f].part = participation]
          /\ UNCHANGED contest
     ELSE /\ fin' = [fin EXCEPT ![f] = IdleFinalizer]
          /\ contest' = IF fin[f].kind = "auto"
                        THEN [fin[f].contest EXCEPT
                                !.is_results_published = TRUE]
                        ELSE contest
  /\ UNCHANGED <<remoteVars, execVars, user, audit, sched, judgeVars, now,
                 participation, creq, cresp>>

\* The User document after the loop body of its participation: the only
\* qualified participant has rank 1.
Rewarded(u, p) ==
  IF p.is_disqualified
  THEN [u EXCEPT !.total_contests_participated = @ + 1]
  ELSE [AddXp(u, FirstPlaceXp) EXCEPT
          !.coins = @ + FirstPlaceCoins,
          !.total_contests_participated = @ + 1]

\* User.get, the awards and participant_user.save().
FinReward(f) ==
  /\ fin[f].pc = "reward"
  /\ user' = Rewarded(user, fin[f].part)
  /\ fin' = [fin EXCEPT ![f].pc = "save_part"]
  /\ UNCHANGED <<remoteVars, execVars, audit, sched, judgeVars, contestVars>>

\* p.save(): the participation as the finalization read it.
FinSavePart(f) ==
  /\ fin[f].pc = "save_part"
  /\ participation' =
       IF fin[f].part.is_disqualified
       THEN [fin[f].part EXCEPT !.total_points = 0, !.problems_solved = 0]
       ELSE fin[f].part
  /\ fin' = [fin EXCEPT ![f].pc = "publish"]
  /\ UNCHANGED <<remoteVars, execVars, user, audit, sched, judgeVars, now,
                 contest, creq, cresp>>

\* contest.save() at the end of the finalization, lines 211-212 and
\* 1020-1023.
FinPublish(f) ==
  /\ fin[f].pc = "publish"
  /\ contest' =
       [fin[f].contest EXCEPT
          !.is_results_published = TRUE,
          !.status = IF fin[f].kind = "admin" THEN "completed" ELSE @]
  /\ fin' = [fin EXCEPT ![f] = IdleFinalizer]
  /\ UNCHANGED <<remoteVars, execVars, user, audit, sched, judgeVars, now,
                 participation, creq, cresp>>

\* A database call of the finalization raises: get_contests prints the
\* exception (lines 236-240), finalize_contest answers 500.
FinFails(f) ==
  /\ fin[f].pc \in {"rank", "reward", "save_part", "publish"}
  /\ fin' = [fin EXCEPT ![f] = IdleFinalizer]
  /\ UNCHANGED <<remoteVars, execVars, user, audit, sched, judgeVars, now,
                 contest, participation, creq, cresp>>

\* ------------------ scheduler.py: ContestScheduler.update_contest_statuses
\* Line 27 and the query of line 30.
SchedFindUpcoming ==
  /\ workload = "lifecycle"
  /\ sched.pc = "idle"
  /\ sched' = [pc |-> "start", now |-> now,
               found |-> contest.status = "upcoming", contest |-> contest,
               last |-> "none", existed |-> contest.status # "none"]
  /\ UNCHANGED <<remoteVars, execVars, user, audit, fin, judgeVars,
                 contestVars>>

\* Line 32.
Starts(c, t) == c.start_time <= t /\ t < c.end_time

\* Lines 31-35.
SchedStart ==
  /\ sched.pc = "start"
  /\ contest' = IF sched.found /\ Starts(sched.contest, sched.now)
                THEN [sched.contest EXCEPT !.status = "ongoing"]
                ELSE contest
  /\ sched' = [sched EXCEPT !.pc = "find_ongoing"]
  /\ UNCHANGED <<remoteVars, execVars, user, audit, fin, judgeVars, now,
                 participation, creq, cresp>>

\* The query of line 38.
SchedFindOngoing ==
  /\ sched.pc = "find_ongoing"
  /\ sched' = [sched EXCEPT !.pc = "complete",
                            !.found = contest.status = "ongoing",
                            !.contest = contest]
  /\ UNCHANGED <<remoteVars, execVars, user, audit, fin, judgeVars,
                 contestVars>>

\* Lines 39-43; the pass ends.
SchedComplete ==
  /\ sched.pc = "complete"
  /\ contest' = IF sched.found /\ sched.now >= sched.contest.end_time
                THEN [sched.contest EXCEPT !.status = "completed"]
                ELSE contest
  /\ sched' = [sched EXCEPT !.pc = "idle", !.last = "done"]
  /\ UNCHANGED <<remoteVars, execVars, user, audit, fin, judgeVars, now,
                 participation, creq, cresp>>

\* Lines 45-46: a database call raises, the pass ends with a log entry.
SchedError ==
  /\ sched.pc \in {"start", "find_ongoing", "complete"}
  /\ sched' = [sched EXCEPT !.pc = "idle", !.last = "error"]
  /\ UNCHANGED <<remoteVars, execVars, user, audit, fin, judgeVars,
                 contestVars>>

\* Time passes.
Tick ==
  /\ workload \in {"contest", "lifecycle"}
  /\ now < MaxClock
  /\ now' = now + 1
  /\ UNCHANGED <<remoteVars, execVars, adminVars, judgeVars, contest, participation, creq, cresp>>

InitContest ==
  /\ workload = "contest"
  /\ handler = "submit_contest_solution"
  /\ pc = "idle"
  /\ \E sub \in ContestSubmissions : language = sub[1] /\ code = sub[2]
  /\ is_oop = FALSE
  /\ tools \in BOOLEAN
  /\ test_cases = <<>>
  /\ i = 0
  /\ test_results = <<>>
  /\ total_time = 0
  /\ all_passed = TRUE
  /\ executions = 0
  /\ spawned = 0
  /\ early_stopped = FALSE
  /\ response = NoResponse
  /\ host_log = <<>>
  /\ now = 0
  /\ contest = [NoContest EXCEPT !.status = "upcoming", !.start_time = 1,
                                  !.end_time = EndTime]
  /\ participation \in {NoParticipation,
                        [NoParticipation EXCEPT !.exists = TRUE]}
  /\ creq = [r \in Requests |-> IdleRequest]
  /\ cresp = NoContestResponse
  /\ RemoteAtRest
  /\ ExecAtRest
  /\ AdminAtRest

\* The life of one contest, from before its creation: the scheduler, the
\* contest list, registration, disqualification and finalization.
InitLifecycle ==
  /\ workload = "lifecycle"
  /\ handler = "get_contests"
  /\ pc = "idle"
  /\ language = "python"
  /\ code = <<"print">>
  /\ is_oop = FALSE
  /\ tools = TRUE
  /\ test_cases = <<>>
  /\ i = 0
  /\ test_results = <<>>
  /\ total_time = 0
  /\ all_passed = TRUE
  /\ executions = 0
  /\ spawned = 0
  /\ early_stopped = FALSE
  /\ response = NoResponse
  /\ host_log = <<>>
  /\ ContestAtRest
  /\ RemoteAtRest
  /\ ExecAtRest
  /\ AdminAtRest

\* Requests of one registered participant that arrive together, while the
\* contest is running.
InitRace ==
  /\ workload = "race"
  /\ handler = "submit_contest_solution"
  /\ pc = "idle"
  /\ language = "python"
  /\ code = <<"print">>
  /\ is_oop = FALSE
  /\ tools = TRUE
  /\ test_cases = <<>>
  /\ i = 0
  /\ test_results = <<>>
  /\ total_time = 0
  /\ all_passed = TRUE
  /\ executions = 0
  /\ spawned = 0
  /\ early_stopped = FALSE
  /\ response = NoResponse
  /\ host_log = <<>>
  /\ now = 2
  /\ contest = [NoContest EXCEPT !.status = "ongoing", !.start_time = 1,
                                  !.end_time = EndTime]
  /\ participation = [NoParticipation EXCEPT !.exists = TRUE]
  /\ creq = [r \in Requests |-> IdleRequest]
  /\ cresp = NoContestResponse
  /\ RemoteAtRest
  /\ ExecAtRest
  /\ AdminAtRest

\* --------------------------------------------------- practice.py: submit_code
PracticeForbidden ==
  << "import os", "import sys", "import subprocess", "import shutil",
     "import requests", "import urllib", "import socket", "import pickle",
     "__import__", "eval", "exec", "compile", "open(", "file(" >>

PracticeResult(out, err, ms, st, mem, n, ex) ==
  [output |-> out, error |-> err, execution_time_ms |-> ms, status |-> st,
   memory_kb |-> mem, spawned |-> n, raised |-> ex]

CodeExecutorPython(c, o, installed) ==
  LET f == FirstForbidden(PracticeForbidden, c)
  IN IF f # 0
     THEN PracticeResult(<<>>,
            Some(<<"Forbidden operation detected: ", PracticeForbidden[f]>>),
            0, "error", 0, 0, FALSE)
     ELSE IF ~installed
          THEN PracticeResult(<<>>, None, 0, "error", 0, 0, TRUE)
          ELSE CASE o.kind = "exit0" ->
                      PracticeResult(Strip(o.stdout), None, o.ms, "success",
                                     1024, 1, FALSE)
                 [] o.kind = "exitN" ->
                      PracticeResult(<<>>, Some(Truncate(o.stderr, ErrLimit)),
                                     o.ms, "error", 0, 1, FALSE)
                 [] OTHER ->
                      PracticeResult(<<>>, Some(<<"Time Limit", " Exceeded">>),
                                     TIME_LIMIT_SECONDS * 1000, "timeout", 0, 1,
                                     FALSE)

PracticeOutcomes(c, installed) ==
  IF ~installed \/ FirstForbidden(PracticeForbidden, c) # 0
  THEN {NoProcess}
  ELSE RunOutcomes

\* dict.get(key): None when the dict has no such key
Get(r, key) == IF key \in DOMAIN r THEN r[key] ELSE None

\* `"error" in r["status"]`
StatusHasError(st) == st \in {"error", "compile_error"}

PracticeTestResult(k, tc, r) ==
  LET actual == Strip(r.output)
      expected == Strip(tc.output)
  IN [test_number |-> k + 1,
      input_data |-> tc.input,
      expected_output |-> expected,
      actual_output |-> IF r.status = "success" THEN Some(actual) ELSE None,
      passed |-> r.status = "success" /\ actual = expected,
      execution_time_ms |-> r.execution_time_ms,
      error_message |-> r.error,
      status |-> r.status]

evaluate_verdict(rs) ==
  IF rs = <<>> THEN "CE"
  ELSE IF \E k \in 1..Len(rs) :
            Truthy(Get(rs[k], "error")) /\ StatusHasError(rs[k].status)
       THEN "RE"
       ELSE IF \E k \in 1..Len(rs) : rs[k].status = "timeout"
            THEN "TLE"
            ELSE IF CountPassed(rs) = Len(rs) THEN "AC" ELSE "WA"

SubmissionResponse(rs, tcs, time) ==
  [http |-> 200,
   verdict |-> evaluate_verdict(rs),
   passed_tests |-> CountPassed(rs),
   total_tests |-> Len(tcs),
   execution_time_ms |-> time,
   test_results |-> rs]

\* generate_test_cases_with_groq returned; an empty list is answered with 500
PracticeBegin ==
  /\ workload = "practice"
  /\ pc = "idle"
  /\ IF test_cases = <<>>
     THEN /\ pc' = "raised"
          /\ response' = [NoResponse EXCEPT !.http = 500]
     ELSE /\ pc' = "loop"
          /\ response' = response
  /\ UNCHANGED <<workload, handler, code, language, is_oop, tools, test_cases,
                 i, test_results, total_time, all_passed, executions, spawned,
                 early_stopped, host_log, contestVars, remoteVars, execVars,
                 adminVars>>

\* One iteration of `for i, test_case in enumerate(test_cases)`; the last one
\* goes on to evaluate_verdict and the response.
PracticeTestCase ==
  /\ workload = "practice"
  /\ pc = "loop"
  /\ \E o \in PracticeOutcomes(code, tools) :
       LET r == CodeExecutorPython(code, o, tools)
           rs == Append(test_results, PracticeTestResult(i, test_cases[i + 1], r))
           time == total_time + r.execution_time_ms
           last == i + 1 = Len(test_cases)
       IN /\ executions' = executions + 1
          /\ spawned' = spawned + r.spawned
          /\ host_log' = Append(host_log, Observed(o, r, test_cases[i + 1]))
          /\ IF r.raised
             THEN /\ pc' = "raised"
                  /\ response' = [NoResponse EXCEPT !.http = 500]
                  /\ UNCHANGED <<i, test_results, total_time>>
             ELSE /\ test_results' = rs
                  /\ total_time' = time
                  /\ i' = IF last THEN i ELSE i + 1
                  /\ pc' = IF last THEN "returned" ELSE "loop"
                  /\ response' = IF last
                                 THEN SubmissionResponse(rs, test_cases, time)
                                 ELSE response
  /\ UNCHANGED <<workload, handler, code, language, is_oop, tools, test_cases,
                 all_passed, early_stopped, contestVars, remoteVars, execVars,
                 adminVars>>

\* Test case k as the generator returns it (expected output already stripped
\* by the generator, practice.py line 152).
GeneratedCase(k) ==
  [input |-> <<"in", k>>,
   output |-> Strip(IF k % 2 = 1 THEN <<"a", " ">> ELSE <<"b">>)]

Generated(n) == [k \in 1..n |-> GeneratedCase(k)]

InitPractice ==
  /\ workload = "practice"
  /\ handler = "submit_code"
  /\ pc = "idle"
  /\ \E sub \in PracticeSubmissions : language = sub[1] /\ code = sub[2]
  /\ is_oop = FALSE
  /\ tools \in BOOLEAN
  /\ \E n \in 0..MaxGenerated : test_cases = Generated(n)
  /\ i = 0
  /\ test_results = <<>>
  /\ total_time = 0
  /\ all_passed = TRUE
  /\ executions = 0
  /\ spawned = 0
  /\ early_stopped = FALSE
  /\ response = NoResponse
  /\ host_log = <<>>
  /\ ContestAtRest
  /\ RemoteAtRest
  /\ ExecAtRest
  /\ AdminAtRest

InitProblems ==
  /\ workload = "problems"
  /\ handler \in {"submit_solution", "submit_module_solution"}
  /\ pc = "idle"
  /\ \E sub \in Submissions : language = sub[1] /\ code = sub[2]
  /\ is_oop \in BOOLEAN
  /\ (handler = "submit_solution" => ~is_oop)
  /\ tools \in BOOLEAN
  /\ \E n \in 1..MaxTests : test_cases = Bank(n)
  /\ i = 0
  /\ test_results = <<>>
  /\ total_time = 0
  /\ all_passed = TRUE
  /\ executions = 0
  /\ spawned = 0
  /\ early_stopped = FALSE
  /\ response = NoResponse
  /\ host_log = <<>>
  /\ ContestAtRest
  /\ RemoteAtRest
  /\ ExecAtRest
  /\ AdminAtRest

\* ------------------------------------ code.py: the remote judging client
\* LANGUAGE_IDS of code.py
LANGUAGE_IDS ==
  ("python" :> 71) @@ ("python3" :> 71) @@ ("cpp" :> 54) @@ ("c++" :> 54)
    @@ ("javascript" :> 63) @@ ("js" :> 63) @@ ("c" :> 50) @@ ("java" :> 62)

\* LANGUAGE_IDS of services/judge0.py
JUDGE0_LANGUAGE_IDS ==
  LANGUAGE_IDS @@ ("ruby" :> 72) @@ ("go" :> 60) @@ ("rust" :> 73)
    @@ ("typescript" :> 74)

\* Judge0Service.get_language_id
get_language_id(lang) ==
  IF LowerTok(lang) \in DOMAIN JUDGE0_LANGUAGE_IDS
  THEN JUDGE0_LANGUAGE_IDS[LowerTok(lang)] ELSE 71

\* Challenge.supported_languages, the default of the document
SupportedLanguages == {"python", "cpp", "javascript"}

\* Language tags a request may carry.
RemoteLanguages == {"Python", "java", "ruby", "cobol"}

\* Status ids the remote service reports: 1 In Queue, 2 Processing, the rest
\* are final.
PendingIds == {1, 2}

FinalIds == {3, 4, 5, 6, 11}

get_status_description(id) ==
  CASE id = 1 -> "In Queue"
    [] id = 2 -> "Processing"
    [] id = 3 -> "Accepted"
    [] id = 4 -> "Wrong Answer"
    [] id = 5 -> "Time Limit Exceeded"
    [] id = 6 -> "Compilation Error"
    [] id = 11 -> "Runtime Error (NZEC)"
    [] id = 13 -> "Internal Error"
    [] OTHER -> "Unknown"

\* `"Error" in first_result_status`
HasErrorWord(desc) ==
  desc \in {"Compilation Error", "Runtime Error (NZEC)", "Internal Error"}

\* first_result_status.lower().replace(" ", "_")
SnakeCase(desc) ==
  CASE desc = "Compilation Error" -> "compilation_error"
    [] desc = "Runtime Error (NZEC)" -> "runtime_error_(nzec)"
    [] desc = "Internal Error" -> "internal_error"
    [] OTHER -> desc

\* What the service answers to POST /submissions.
CreateReplies == {"created", "refused", "unreachable"}

\* What the service answers to GET /submissions/{token}: a non-success HTTP
\* status, no answer at all, or the submission with its status id and stdout.
PollReplies ==
  [http : {200}, status_id : PendingIds, stdout : {<<>>}]
    \cup [http : {200}, status_id : FinalIds, stdout : {<<"a">>, <<"b">>}]
    \cup [http : {500}, status_id : {0}, stdout : {<<>>}]
    \cup [http : {0}, status_id : {0}, stdout : {<<>>}]

\* time and memory as the service reports them for a finished submission
RemoteTimeMs == 10

RemoteMemoryKb == 1024

\* Test case k of a challenge.
ChallengeCase(k, hidden) ==
  [input |-> <<"in", k>>, expected_output |-> BankCase(k).output,
   is_hidden |-> hidden, points |-> 10]

\* Variant: the output fields are written for hidden test cases too.
ChallengeTestResultAll(k, tc, result) ==
  [test_case_index |-> k,
   passed |-> result.status_id = 3,
   status |-> get_status_description(result.status_id),
   time_ms |-> RemoteTimeMs,
   memory_kb |-> RemoteMemoryKb,
   actual_output |-> result.stdout,
   expected_output |-> tc.expected_output,
   input |-> tc.input]

\* The test_result dict submit_challenge builds for test case k (0-based).
ChallengeTestResult(k, tc, result) ==
  LET base == [test_case_index |-> k,
               passed |-> result.status_id = 3,
               status |-> get_status_description(result.status_id),
               time_ms |-> RemoteTimeMs,
               memory_kb |-> RemoteMemoryKb]
  IN IF ~tc.is_hidden
     THEN base @@ [actual_output |-> result.stdout,
                   expected_output |-> tc.expected_output,
                   input |-> tc.input]
     ELSE base

\* "Determine overall status" of submit_challenge
FinalStatus(rs, passed, tcs) ==
  IF passed = Len(tcs) THEN "accepted"
  ELSE IF passed > 0 THEN "partial"
       ELSE IF HasErrorWord(rs[1].status)
            THEN SnakeCase(rs[1].status)
            ELSE "wrong_answer"

\* The body submit_challenge returns.
ChallengeResponse(rs, tcs) ==
  [http |-> 200,
   verdict |-> FinalStatus(rs, CountPassed(rs), tcs),
   passed_tests |-> CountPassed(rs),
   total_tests |-> Len(tcs),
   execution_time_ms |-> IF rs = <<>> THEN 0 ELSE RemoteTimeMs,
   test_results |->
     [k \in 1..Len(rs) |-> rs[k] @@ [is_hidden |-> tcs[k].is_hidden]]]

\* What the caller of a handler gets when an exception with HTTP status st
\* leaves the remote calls: run_code re-raises an HTTPException as it is,
\* submit_challenge turns every exception into a 500, and the methods of
\* Judge0Service have no HTTP response of their own.
FailureStatus(h, st) ==
  IF h = "submit_challenge" THEN 500
  ELSE IF h = "run_code" THEN st ELSE 0

\* Variant: submit_challenge re-raises without touching the record.
RaiseUnrecorded(st) ==
  /\ pc' = "raised"
  /\ response' = [NoResponse EXCEPT !.http = FailureStatus(handler, st)]
  /\ submission' = submission

\* An exception leaves create_submission / get_submission_result; the
\* `except Exception` of submit_challenge stores status "error" first.
Raise(st) ==
  /\ pc' = "raised"
  /\ response' = [NoResponse EXCEPT !.http = FailureStatus(handler, st)]
  /\ submission' = IF handler = "submit_challenge"
                   THEN [submission EXCEPT
                           !.status = "error",
                           !.error_message = Some(<<"HTTPException">>)]
                   ELSE submission

\* Variant: the HTTP status of the answer to the create call is not checked.
CreateRaisesLax(reply) == reply = "unreachable"

\* `if response.status != 201: raise`, raise_for_status(), or no answer
CreateRaises(reply) == reply # "created"

\* max_attempts of the poll loop the handler goes through
MaxAttemptsOf(h) == IF h = "submit_code" THEN POLL_MAX_ATTEMPTS ELSE MAX_ATTEMPTS

\* The outcome record run_with_test_cases appends for test case k (0-based).
Judge0TestResult(k, tc, result) ==
  [test_case |-> k + 1,
   passed |-> Strip(result.stdout) = Strip(tc.expected_output)
              /\ result.status_id = 3,
   status |-> get_status_description(result.status_id),
   actual_output |-> Strip(result.stdout),
   expected_output |-> Strip(tc.expected_output)]

\* What verify_solution returns from the result of run_with_test_cases.
VerifySolutionResult(rs) ==
  [http |-> 0,
   verdict |-> IF CountPassed(rs) = Len(rs) THEN "Accepted" ELSE "Wrong Answer",
   passed_tests |-> CountPassed(rs),
   total_tests |-> Len(rs),
   execution_time_ms |-> 0,
   test_results |-> <<>>]

\* Language validation; submit_challenge then inserts the Submission record.
RemoteBegin ==
  /\ workload = "remote"
  /\ pc = "idle"
  /\ LET lang == LowerTok(language)
         bad == CASE handler = "run_code" -> lang \notin DOMAIN LANGUAGE_IDS
                  [] handler = "submit_challenge" ->
                       lang \notin DOMAIN LANGUAGE_IDS
                         \/ lang \notin SupportedLanguages
                  [] OTHER -> FALSE
     IN IF bad
        THEN /\ pc' = "raised"
             /\ response' = [NoResponse EXCEPT !.http = 400]
             /\ submission' = submission
        ELSE /\ pc' = IF handler \in {"submit_challenge", "verify_solution"}
                         /\ test_cases = <<>>
                      THEN "finish" ELSE "create"
             /\ response' = response
             /\ submission' =
                  IF handler = "submit_challenge"
                  THEN [NoSubmission EXCEPT !.status = "running",
                                            !.total_tests = Len(test_cases)]
                  ELSE submission
  /\ UNCHANGED <<workload, handler, code, language, is_oop, tools, test_cases,
                 i, test_results, total_time, all_passed, executions, spawned,
                 early_stopped, host_log, attempt, remote, contestVars,
                 execVars, adminVars>>

\* After a finished result for the current test case: next test case or end.
NextCase(rs) ==
  /\ test_results' = rs
  /\ i' = i + 1
  /\ pc' = IF i + 1 = Len(test_cases) THEN "finish" ELSE "create"
  /\ UNCHANGED <<response, submission>>

\* create_submission / the POST of Judge0Service.submit_code.  With
\* wait=true (verify_solution) the answer to the POST is the finished result.
RemoteCreate ==
  /\ workload = "remote"
  /\ pc = "create"
  /\ attempt' = 0
  /\ \E reply \in CreateReplies :
       IF CreateRaises(reply)
       THEN /\ Raise(500)
            /\ remote' = [remote EXCEPT
                            !.refused = @ \/ reply = "refused"]
            /\ UNCHANGED <<i, test_results>>
       ELSE /\ remote' = [remote EXCEPT
                            !.created = @ + 1,
                            !.refused = @ \/ reply = "refused"]
            /\ IF handler = "verify_solution"
               THEN \E res \in {r \in PollReplies : r.status_id \in FinalIds} :
                      NextCase(Append(test_results,
                                 Judge0TestResult(i, test_cases[i + 1], res)))
               ELSE /\ pc' = "poll"
                    /\ UNCHANGED <<response, submission, i, test_results>>
  /\ UNCHANGED <<workload, handler, code, language, is_oop, tools, test_cases,
                 total_time, all_passed, executions, spawned, early_stopped,
                 host_log, contestVars, execVars, adminVars>>

\* One pass through the poll loop of get_submission_result /
\* Judge0Service._poll_submission; the last allowed pass also leaves the loop.
RemotePoll ==
  /\ workload = "remote"
  /\ pc = "poll"
  /\ \E reply \in PollReplies :
       LET last == attempt + 1 = MaxAttemptsOf(handler)
       IN IF reply.http # 200
          THEN /\ Raise(500)
               /\ remote' = [remote EXCEPT !.refused = @ \/ reply.http = 500]
               /\ UNCHANGED <<attempt, i, test_results>>
          ELSE IF reply.status_id \in PendingIds
               THEN /\ attempt' = attempt + 1
                    /\ remote' = [remote EXCEPT !.exhausted = last]
                    /\ UNCHANGED <<i, test_results>>
                    /\ IF ~last
                       THEN UNCHANGED <<pc, response, submission>>
                       ELSE IF handler = "submit_code"
                            THEN /\ pc' = "returned"
                                 /\ response' =
                                      [NoResponse EXCEPT !.verdict =
                                         get_status_description(reply.status_id)]
                                 /\ submission' = submission
                            ELSE Raise(408)
               ELSE /\ attempt' = attempt + 1
                    /\ remote' = remote
                    /\ IF handler = "submit_challenge"
                       THEN NextCase(Append(test_results,
                              ChallengeTestResult(i, test_cases[i + 1], reply)))
                       ELSE /\ pc' = "returned"
                            /\ response' =
                                 [NoResponse EXCEPT
                                    !.http = IF handler = "run_code"
                                             THEN 200 ELSE 0,
                                    !.verdict =
                                       get_status_description(reply.status_id)]
                            /\ UNCHANGED <<submission, i, test_results>>
  /\ UNCHANGED <<workload, handler, code, language, is_oop, tools, test_cases,
                 total_time, all_passed, executions, spawned, early_stopped,
                 host_log, contestVars, execVars, adminVars>>

\* The end of submit_challenge (overall status, save, response) and of
\* verify_solution.
RemoteFinish ==
  /\ workload = "remote"
  /\ pc = "finish"
  /\ pc' = "returned"
  /\ IF handler = "submit_challenge"
     THEN /\ response' = ChallengeResponse(test_results, test_cases)
          /\ submission' =
               [submission EXCEPT
                  !.status = FinalStatus(test_results,
                                         CountPassed(test_results), test_cases),
                  !.test_results = test_results,
                  !.passed_tests = CountPassed(test_results)]
     ELSE /\ response' = VerifySolutionResult(test_results)
          /\ submission' = submission
  /\ UNCHANGED <<workload, handler, code, language, is_oop, tools, test_cases,
                 i, test_results, total_time, all_passed, executions, spawned,
                 early_stopped, host_log, attempt, remote, contestVars,
                 execVars, adminVars>>

InitRemote ==
  /\ workload = "remote"
  /\ handler \in {"run_code", "submit_challenge", "submit_code",
                  "verify_solution"}
  /\ pc = "idle"
  /\ code = <<"print">>
  /\ language \in RemoteLanguages
  /\ is_oop = FALSE
  /\ tools = TRUE
  /\ IF handler \in {"submit_challenge", "verify_solution"}
     THEN \E n \in 0..MaxRemoteTests : \E hidden \in [1..n -> BOOLEAN] :
            /\ handler = "verify_solution" => \A k \in 1..n : hidden[k]
            /\ test_cases = [k \in 1..n |-> ChallengeCase(k, hidden[k])]
     ELSE test_cases = <<>>
  /\ i = 0
  /\ test_results = <<>>
  /\ total_time = 0
  /\ all_passed = TRUE
  /\ executions = 0
  /\ spawned = 0
  /\ early_stopped = FALSE
  /\ response = NoResponse
  /\ host_log = <<>>
  /\ ContestAtRest
  /\ RemoteAtRest
  /\ ExecAtRest
  /\ AdminAtRest

\* ------------------------- the execution strategies, one call step by step
\* (class or handler, language) of the seven local execution strategies
Strategies ==
  {<<"MultiLangExecutor", l>> : l \in {"python", "cpp", "javascript"}}
    \cup {<<"CodeExecutor", "python">>}
    \cup {<<"submit_contest_solution", l>> :
            l \in {"python", "cpp", "javascript"}}

\* the security check that returns before any file is created
Denied(h, lang, c) ==
  \/ h = "MultiLangExecutor" /\ lang = "python"
       /\ FirstForbidden(PyForbidden, c) # 0
  \/ h = "CodeExecutor" /\ FirstForbidden(PracticeForbidden, c) # 0

\* `except Exception` around the body of the test-case loop (compete.py)
CatchesAll(h) == h = "submit_contest_solution"

\* `except FileNotFoundError` of the strategy
CatchesNotFound(h, lang) ==
  CatchesAll(h) \/ (h = "MultiLangExecutor" /\ lang \in {"cpp", "javascript"})

\* where an exception that leaves the strategy uncaught or caught ends
AfterException(caught) == IF caught THEN "returned" ELSE "raised"

\* The security check, then `with tempfile.NamedTemporaryFile(...,
\* delete=False) as f: f.write(code); code_file = f.name`, which precedes
\* the try block: the file exists once it is opened, and the write can fail.
ExecBegin ==
  /\ workload = "execute"
  /\ pc = "idle"
  /\ IF Denied(handler, language, code)
     THEN /\ pc' = "returned"
          /\ call' = call
     ELSE \E written \in BOOLEAN :
            /\ call' = [call EXCEPT
                 !.files = {"code_file"},
                 !.known = IF ~written THEN {}
                           ELSE IF language = "cpp"
                                THEN {"code_file", "exe_file"}
                                ELSE {"code_file"}]
            /\ pc' = IF ~written THEN AfterException(CatchesAll(handler))
                     ELSE IF handler = "CodeExecutor" THEN "write_input"
                     ELSE IF language = "cpp" THEN "compile"
                     ELSE "run"
  /\ UNCHANGED <<workload, handler, code, language, is_oop, tools, test_cases,
                 i, test_results, total_time, all_passed, executions, spawned,
                 early_stopped, response, host_log, contestVars, remoteVars,
                 adminVars>>

\* CodeExecutor.execute_python writes the input to a second temporary file,
\* inside the try block.
ExecWriteInput ==
  /\ workload = "execute"
  /\ pc = "write_input"
  /\ \E written \in BOOLEAN :
       /\ call' = [call EXCEPT
            !.files = @ \cup {"input_file"},
            !.known = IF written THEN @ \cup {"input_file"} ELSE @,
            !.leaving = IF written THEN @ ELSE "exception"]
       /\ pc' = IF written THEN "run" ELSE "finally"
  /\ UNCHANGED <<workload, handler, code, language, is_oop, tools, test_cases,
                 i, test_results, total_time, all_passed, executions, spawned,
                 early_stopped, response, host_log, contestVars, remoteVars,
                 adminVars>>

\* subprocess.run starts the compiler or the program; FileNotFoundError when
\* the executable is not on the host.  hangs: the child will not end by
\* itself.
ExecSpawn ==
  /\ workload = "execute"
  /\ pc \in {"compile", "run"}
  /\ IF ~tools
     THEN /\ call' = [call EXCEPT !.leaving = "not_found"]
          /\ pc' = "finally"
          /\ spawned' = spawned
     ELSE /\ \E hangs \in BOOLEAN :
               call' = [call EXCEPT
                  !.procs = {IF pc = "compile" THEN "g++" ELSE "program"},
                  !.hangs = hangs]
          /\ pc' = "wait"
          /\ spawned' = spawned + 1
  /\ UNCHANGED <<workload, handler, code, language, is_oop, tools, test_cases,
                 i, test_results, total_time, all_passed, executions,
                 early_stopped, response, host_log, contestVars, remoteVars,
                 adminVars>>

\* The child ends by itself and subprocess.run returns its exit status; a
\* compiler that succeeds has written the binary.
ExecExit ==
  /\ workload = "execute"
  /\ pc = "wait"
  /\ ~call.hangs
  /\ \E status0 \in BOOLEAN :
       IF "g++" \in call.procs /\ status0
       THEN /\ call' = [call EXCEPT !.procs = {},
                                    !.files = @ \cup {"exe_file"}]
            /\ pc' = "run"
       ELSE /\ call' = [call EXCEPT !.procs = {}, !.leaving = "result"]
            /\ pc' = "finally"
  /\ UNCHANGED <<workload, handler, code, language, is_oop, tools, test_cases,
                 i, test_results, total_time, all_passed, executions, spawned,
                 early_stopped, response, host_log, contestVars, remoteVars,
                 adminVars>>

\* The timeout of subprocess.run expires: it kills the child, waits for it
\* and raises TimeoutExpired.  A compiler killed half-way may have left a
\* binary.
ExecTimeout ==
  /\ workload = "execute"
  /\ pc = "wait"
  /\ \E partial \in IF "g++" \in call.procs THEN BOOLEAN ELSE {FALSE} :
       call' = [call EXCEPT
          !.procs = {},
          !.files = IF partial THEN @ \cup {"exe_file"} ELSE @,
          !.leaving = "timeout"]
  /\ pc' = "finally"
  /\ UNCHANGED <<workload, handler, code, language, is_oop, tools, test_cases,
                 i, test_results, total_time, all_passed, executions, spawned,
                 early_stopped, response, host_log, contestVars, remoteVars,
                 adminVars>>

\* The finally clause unlinks the files whose names it holds (a NameError or
\* an OSError in it is swallowed); then the call returns its result or the
\* exception goes on.
ExecFinally ==
  /\ workload = "execute"
  /\ pc = "finally"
  /\ call' = [call EXCEPT !.files = @ \ call.known]
  /\ pc' = CASE call.leaving = "not_found" ->
                  AfterException(CatchesNotFound(handler, language))
             [] call.leaving = "exception" ->
                  AfterException(CatchesAll(handler))
             [] OTHER -> "returned"
  /\ UNCHANGED <<workload, handler, code, language, is_oop, tools, test_cases,
                 i, test_results, total_time, all_passed, executions, spawned,
                 early_stopped, response, host_log, contestVars, remoteVars,
                 adminVars>>

InitExecute ==
  /\ workload = "execute"
  /\ \E st \in Strategies : handler = st[1] /\ language = st[2]
  /\ pc = "idle"
  /\ code \in Codes
  /\ is_oop = FALSE
  /\ tools \in BOOLEAN
  /\ test_cases = <<>>
  /\ i = 0
  /\ test_results = <<>>
  /\ total_time = 0
  /\ all_passed = TRUE
  /\ executions = 0
  /\ spawned = 0
  /\ early_stopped = FALSE
  /\ response = NoResponse
  /\ host_log = <<>>
  /\ ContestAtRest
  /\ RemoteAtRest
  /\ ExecAtRest
  /\ AdminAtRest

Init ==
  \/ InitProblems
  \/ InitPractice
  \/ InitContest
  \/ InitRemote
  \/ InitExecute
  \/ InitRace
  \/ InitLifecycle

Next ==
  \/ SubmitBegin
  \/ JudgeTestCase
  \/ PracticeBegin
  \/ PracticeTestCase
  \/ Tick
  \/ \E r \in Requests : ContestBeginSeq(r)
  \/ \E r \in Requests : ContestBeginAny(r)
  \/ DisqualifyUser
  \/ \E r \in Requests : ContestTestCase(r)
  \/ \E r \in Requests : ContestFinish(r)
  \/ RemoteBegin
  \/ RemoteCreate
  \/ RemotePoll
  \/ RemoteFinish
  \/ ExecBegin
  \/ ExecWriteInput
  \/ ExecSpawn
  \/ ExecExit
  \/ ExecTimeout
  \/ ExecFinally
  \/ CreateContest
  \/ RegisterForContest
  \/ GetContests
  \/ FinalizeContest
  \/ \E f \in Finalizers : FinRank(f)
  \/ \E f \in Finalizers : FinReward(f)
  \/ \E f \in Finalizers : FinSavePart(f)
  \/ \E f \in Finalizers : FinPublish(f)
  \/ \E f \in Finalizers : FinFails(f)
  \/ SchedFindUpcoming
  \/ SchedStart
  \/ SchedFindOngoing
  \/ SchedComplete
  \/ SchedError

Spec == Init /\ [][Next]_vars

\* The remote client alone.  The handlers are coroutines the event loop
\* always resumes, and every call to the service ends with an answer or an
\* exception of the HTTP client: a handler that can take a step takes it.
RemoteNext == RemoteBegin \/ RemoteCreate \/ RemotePoll \/ RemoteFinish

LiveSpec == InitRemote /\ [][RemoteNext]_vars /\ WF_vars(RemoteNext)

\* One call of an execution strategy alone.  subprocess.run blocks the
\* caller until the child has ended or its timeout has expired, and the
\* caller then goes on: a call that can take a step takes it.
ExecNext ==
  \/ ExecBegin
  \/ ExecWriteInput
  \/ ExecSpawn
  \/ ExecExit
  \/ ExecTimeout
  \/ ExecFinally

ExecSpec == InitExecute /\ [][ExecNext]_vars /\ WF_vars(ExecNext)

\* The periodic scheduler alone, with the clock and the creation of the
\* contest.  ContestScheduler.run starts a pass every 30 seconds for as long
\* as the application runs.
SchedNext ==
  \/ Tick
  \/ CreateContest
  \/ SchedFindUpcoming
  \/ SchedStart
  \/ SchedFindOngoing
  \/ SchedComplete
  \/ SchedError

SchedSpec == InitLifecycle /\ [][SchedNext]_vars /\ WF_vars(SchedNext)

\* ================================================================== claims
\* A handler of problems.py or practice.py has returned a judged result
\* (the OOP rejection of submit_module_solution returns before any test).
Judged ==
  /\ workload \in {"problems", "practice"}
  /\ pc = "returned"

RanTests == Judged /\ executions > 0

\* C1: in every result returned by submit_solution, submit_module_solution
\* and submit_code, passed_tests equals total_tests exactly when the verdict
\* is AC.
C1_PassedAllIffAccepted ==
  Judged => ((response.passed_tests = response.total_tests)
             <=> (response.verdict = "AC"))

C1_Witness ==
  /\ Judged
  /\ response.verdict = "AC"
  /\ response.total_tests >= 3
  /\ response.passed_tests = response.total_tests

\* The verdict the priority order of the claim gives to the executor statuses
\* of a run.
PriorityVerdict(log) ==
  IF \E k \in 1..Len(log) : log[k].status = "compile_error" THEN "CE"
  ELSE IF \E k \in 1..Len(log) : log[k].status = "error" THEN "RE"
  ELSE IF \E k \in 1..Len(log) : log[k].status = "timeout" THEN "TLE"
  ELSE IF response.passed_tests = response.total_tests THEN "AC"
  ELSE "WA"

\* C2: the verdict of submit_solution / submit_module_solution follows the
\* priority CE, then RE (any runtime error), then TLE, then AC, else WA.
C2_VerdictPriority ==
  (workload = "problems" /\ RanTests)
    => response.verdict = PriorityVerdict(host_log)

\* the record written for a test case that was not run
IsSkipped(tr) ==
  /\ ~tr.passed
  /\ tr.error = Some(<<"Skipped due to previous failure">>)
  /\ tr.execution_time_ms = 0
  /\ tr.actual_output = None

FirstFailure(rs) ==
  IF \A k \in 1..Len(rs) : rs[k].passed THEN 0
  ELSE CHOOSE k \in 1..Len(rs) :
         ~rs[k].passed /\ \A m \in 1..(k - 1) : rs[m].passed

\* C4: when some test case fails, at most max(3, f) test cases are executed,
\* f being the position of the first failure; the others are marked skipped
\* and never handed to the executor.
C4_ExecutionBound ==
  (workload = "problems" /\ FirstFailure(test_results) # 0)
    => /\ executions <= Max(3, FirstFailure(test_results))
       /\ Len(host_log) = executions
       /\ \A k \in (executions + 1)..Len(test_results) :
            IsSkipped(test_results[k])

C4_Witness ==
  /\ workload = "problems"
  /\ pc = "returned"
  /\ FirstFailure(test_results) = 1
  /\ executions = 3
  /\ Len(test_cases) = 4
  /\ test_results[2].passed
  /\ IsSkipped(test_results[4])


\* every test case was run and the program wrote the expected text each time
AllOutputsMatch ==
  /\ Len(host_log) = Len(test_cases)
  /\ \A k \in 1..Len(host_log) : host_log[k].match

\* every test case was run and the program ended with exit status 0 in time
AllExitedZero ==
  /\ Len(host_log) = Len(test_cases)
  /\ \A k \in 1..Len(host_log) : host_log[k].kind = "exit0"

\* request r returns from submit_contest_solution with its result
Finishes(r) == creq[r].pc = "judged" /\ creq'[r].pc = "idle"

\* request r returns, and the participation has not been written since the
\* request read it (requests that overlap a write are the subject of C26)
FinishesAlone(r) == Finishes(r) /\ creq[r].part = participation

\* C5 as stated: Accepted exactly when every test case's trimmed output
\* equals the trimmed expected output and the run was not early-stopped,
\* whatever the exit status (submit_solution, and is_accepted of
\* submit_contest_solution).
C5_AcceptedIffOutputsMatch ==
  /\ []((workload = "problems" /\ RanTests)
          => ((response.verdict = "AC")
              <=> (AllOutputsMatch /\ ~early_stopped)))
  /\ [][\A r \in Requests :
          Finishes(r) => (cresp'.accepted <=> creq[r].all_match)]_vars

\* C5 amended: Accepted exactly when every test case was run, the program
\* ended with exit status 0 within the time limit on each, and its trimmed
\* output equals the trimmed expected output.
C5_AcceptedIffCleanPass ==
  /\ []((workload = "problems" /\ RanTests)
          => ((response.verdict = "AC")
              <=> (AllOutputsMatch /\ AllExitedZero)))
  /\ [][\A r \in Requests :
          Finishes(r)
            => (cresp'.accepted
                <=> (creq[r].all_match /\ creq[r].all_exit0))]_vars

C5_Witness ==
  /\ workload = "problems"
  /\ RanTests
  /\ AllOutputsMatch
  /\ ~AllExitedZero
  /\ ~early_stopped
  /\ response.verdict # "AC"

\* number of non-accepted records of problem p in a submission list
WrongCount(subs, p) ==
  Cardinality({k \in 1..Len(subs) :
                 subs[k].problem_order = p /\ subs[k].accepted = FALSE})

HasAccepted(subs, p) ==
  \E k \in 1..Len(subs) : subs[k].problem_order = p /\ subs[k].accepted = TRUE

\* whole minutes between the start of the contest and the clock
WholeMinutes ==
  CHOOSE m \in 0..(MaxClock * SecondsPerTick) :
    /\ m * SecondsPerMinute <= (now - contest.start_time) * SecondsPerTick
    /\ (now - contest.start_time) * SecondsPerTick < (m + 1) * SecondsPerMinute

\* C6: a first accepted submission for a problem adds exactly the problem's
\* points, one solved problem, and (whole minutes since contest start)
\* + 20 * (earlier non-accepted submissions for that problem) of penalty;
\* 12 minutes after 2 wrong attempts add 52.
C6_FirstSolve ==
  [][\A r \in Requests :
       (/\ FinishesAlone(r)
        /\ cresp'.accepted
        /\ ~HasAccepted(participation.problem_submissions,
                        creq[r].problem_index))
       => /\ participation'.total_points
               = participation.total_points
                 + ContestProblems[creq[r].problem_index + 1].points
          /\ participation'.problems_solved = participation.problems_solved + 1
          /\ participation'.total_penalty
               = participation.total_penalty + WholeMinutes
                 + 20 * WrongCount(participation.problem_submissions,
                                   creq[r].problem_index)
          /\ 12 + 20 * 2 = 52]_vars

C6_Witness ==
  /\ workload = "contest"
  /\ Len(participation.problem_submissions) = 2
  /\ participation.problem_submissions[1].problem_order = 0
  /\ ~participation.problem_submissions[1].accepted
  /\ participation.problem_submissions[2].problem_order = 0
  /\ participation.problem_submissions[2].accepted
  /\ participation.problem_submissions[2].penalty_minutes = 1
  /\ participation.total_penalty = 21
  /\ participation.total_points = 100
  /\ participation.problems_solved = 1

\* C7: an accepted submission for a problem that already has an accepted
\* record is appended to problem_submissions and leaves total_points,
\* total_penalty and problems_solved unchanged.
C7_RepeatSolve ==
  [][\A r \in Requests :
       (/\ FinishesAlone(r)
        /\ cresp'.accepted
        /\ HasAccepted(participation.problem_submissions,
                       creq[r].problem_index))
       => /\ Len(participation'.problem_submissions)
               = Len(participation.problem_submissions) + 1
          /\ SubSeq(participation'.problem_submissions, 1,
                    Len(participation.problem_submissions))
               = participation.problem_submissions
          /\ LET rec == participation'.problem_submissions[
                          Len(participation'.problem_submissions)]
             IN rec.problem_order = creq[r].problem_index /\ rec.accepted
          /\ participation'.total_points = participation.total_points
          /\ participation'.total_penalty = participation.total_penalty
          /\ participation'.problems_solved = participation.problems_solved
     ]_vars

C7_Witness ==
  /\ workload = "contest"
  /\ Len(participation.problem_submissions) = 2
  /\ \A k \in 1..2 : /\ participation.problem_submissions[k].problem_order = 1
                     /\ participation.problem_submissions[k].accepted
  /\ participation.total_points = 100
  /\ participation.problems_solved = 1

\* position of the first accepted record of problem p, 0 when there is none
FirstAccepted(subs, p) ==
  IF ~HasAccepted(subs, p) THEN 0
  ELSE CHOOSE k \in 1..Len(subs) :
         /\ subs[k].problem_order = p /\ subs[k].accepted
         /\ \A m \in 1..(k - 1) :
              ~(subs[m].problem_order = p /\ subs[m].accepted)

\* the penalty charged for problem p according to the submission list
PenaltyOf(subs, p) ==
  LET f == FirstAccepted(subs, p)
  IN IF f = 0 THEN 0
     ELSE subs[f].penalty_minutes + 20 * WrongCount(SubSeq(subs, 1, f - 1), p)

RECURSIVE SumPenalty(_, _)
SumPenalty(subs, p) ==
  IF p < 0 THEN 0 ELSE PenaltyOf(subs, p) + SumPenalty(subs, p - 1)

\* C8: a non-accepted submission changes none of total_points, total_penalty
\* and problems_solved and raises the wrong-attempt count of its own problem
\* only; the penalty charged for a problem is made of its own acceptance time
\* and its own wrong attempts, whatever was submitted for other problems.
C8_WrongAttempt ==
  /\ [](workload = "contest"
          => participation.total_penalty
               = SumPenalty(participation.problem_submissions,
                            Len(ContestProblems) - 1))
  /\ [][\A r \in Requests :
          (FinishesAlone(r) /\ ~cresp'.accepted)
          => /\ participation'.total_points = participation.total_points
             /\ participation'.total_penalty = participation.total_penalty
             /\ participation'.problems_solved = participation.problems_solved
             /\ \A p \in 0..(Len(ContestProblems) - 1) :
                  WrongCount(participation'.problem_submissions, p)
                    = WrongCount(participation.problem_submissions, p)
                      + (IF p = creq[r].problem_index THEN 1 ELSE 0)]_vars

C8_Witness ==
  /\ workload = "contest"
  /\ Len(participation.problem_submissions) = 2
  /\ participation.problem_submissions[1].problem_order = 0
  /\ ~participation.problem_submissions[1].accepted
  /\ participation.problem_submissions[2].problem_order = 1
  /\ participation.problem_submissions[2].accepted
  /\ participation.total_penalty
       = participation.problem_submissions[2].penalty_minutes
  /\ participation.total_points = 100

\* the source holds one of the denylisted constructs named by the claims
Denylisted(c) ==
  \E tok \in {"import os", "import subprocess"} :
    \E k \in 1..Len(c) : LowerTok(c[k]) = tok

\* the request is a Python submission (practice.py runs everything as Python)
PythonSubmission ==
  \/ workload = "practice"
  \/ (workload \in {"problems", "contest"} /\ language = "python")

\* C9: on every local execution path a Python submission holding a
\* denylisted construct is rejected by the pre-filter, and no child process
\* is spawned for it, however many test cases there are.
C9_NoProcessForDenylisted ==
  (PythonSubmission /\ Denylisted(code))
    => /\ spawned = 0
       /\ \A r \in Requests : creq[r].spawned = 0

\* the error message of a recorded outcome names a denylisted token
NamesToken(msg) ==
  msg.some /\ \E tok \in {"import os", "import subprocess"} :
                \E k \in 1..Len(msg.val) : msg.val[k] = tok

\* C10: a submission rejected by the pre-filter ends with verdict RE and an
\* error message naming the forbidden token, in submit_solution and in
\* submit_code.
C10_FilterRejectionIsRuntimeError ==
  (RanTests /\ PythonSubmission /\ Denylisted(code))
    => /\ response.verdict = "RE"
       /\ \A k \in 1..executions :
            NamesToken(IF workload = "practice"
                       THEN test_results[k].error_message
                       ELSE test_results[k].error)

\* some executor call ended because the program ran past the time limit
TimedOut == \E k \in 1..Len(host_log) : host_log[k].kind = "timeout"

\* no executor call ended in a compile failure or a non-zero exit
NoErrorEnd ==
  \A k \in 1..Len(host_log) : host_log[k].kind \notin {"exitN", "compile_fail"}

\* C11: a submission that ran past the time limit on some test case is never
\* judged AC; when no test case ended in a compile or runtime error its
\* verdict is TLE (submit_solution, submit_module_solution, submit_code).
C11_TimeoutNeverAccepted ==
  (RanTests /\ TimedOut)
    => /\ response.verdict # "AC"
       /\ NoErrorEnd => response.verdict = "TLE"

C11_Witness ==
  /\ workload = "problems"
  /\ RanTests
  /\ Len(host_log) = 2
  /\ host_log[1].kind = "exit0" /\ host_log[1].match
  /\ host_log[2].kind = "timeout"
  /\ response.verdict = "TLE"

\* the compiler rejected the C++ source on every executor call of the run
CompileFailed ==
  /\ workload = "problems"
  /\ language = "cpp"
  /\ RanTests
  /\ \A k \in 1..Len(host_log) : host_log[k].kind = "compile_fail"

\* C12: for a C++ submission that fails to compile the binary is never run
\* (one child process, the compiler, per executor call), every recorded
\* outcome has execution time 0, the total execution_time_ms is 0 and the
\* verdict is CE.
C12_CompileFailureIsCE ==
  CompileFailed
    => /\ spawned = executions
       /\ \A k \in 1..Len(test_results) : test_results[k].execution_time_ms = 0
       /\ response.execution_time_ms = 0
       /\ response.verdict = "CE"

\* the verdict C13 describes, from how each program run ended
PracticeExpectedVerdict ==
  IF \E k \in 1..Len(host_log) : host_log[k].kind = "exitN" THEN "RE"
  ELSE IF TimedOut THEN "TLE"
       ELSE IF \A k \in 1..Len(test_results) : test_results[k].passed
            THEN "AC" ELSE "WA"

\* C13: in practice submit_code the verdict is RE when some test case ended
\* with a runtime error (status "error", non-zero exit), else TLE when some
\* test case timed out, else AC when all passed, else WA.
C13_PracticeVerdict ==
  (workload = "practice" /\ RanTests)
    => response.verdict = PracticeExpectedVerdict

\* C14 as stated: total_tests equals the number of test cases executed, and is
\* less than the size of the test-case set when early stop skipped some.
C14_TotalIsExecuted ==
  (workload = "problems" /\ RanTests)
    => /\ response.total_tests = executions
       /\ (early_stopped /\ executions < Len(test_cases))
            => response.total_tests < Len(test_cases)

\* C14 amended: total_tests equals the size of the problem's test-case set,
\* skipped cases included; the number of executed test cases is total_tests
\* less the number of skip records.
C14_TotalIsWholeSet ==
  (workload = "problems" /\ RanTests)
    => /\ response.total_tests = Len(test_cases)
       /\ Len(test_results) = Len(test_cases)
       /\ executions
            = response.total_tests
              - Cardinality({k \in 1..Len(test_results) :
                               IsSkipped(test_results[k])})

C14_Witness ==
  /\ workload = "problems"
  /\ RanTests
  /\ early_stopped
  /\ executions = 3
  /\ response.total_tests = 4

\* submit_challenge has returned its body
ChallengeReturned ==
  workload = "remote" /\ handler = "submit_challenge" /\ pc = "returned"

\* C15: no orchestrator yields an Accepted verdict for a run with zero test
\* cases (submit_solution, submit_module_solution, submit_code,
\* submit_challenge, submit_contest_solution).
C15_NoAcceptOnZeroTests ==
  /\ (Judged /\ test_cases = <<>>) => response.verdict # "AC"
  /\ (ChallengeReturned /\ test_cases = <<>>)
       => /\ response.verdict # "accepted"
          /\ submission.status # "accepted"
  /\ \A r \in Requests : creq[r].pc \in {"loop", "judged"} => creq[r].total > 0

\* C16: polling is bounded by the maximum attempt count, and when the
\* submission is still queued or processing after the last attempt the
\* caller receives HTTP 408, never a result object (run_code,
\* submit_challenge, Judge0Service._poll_submission).
C16_PollExhaustionIs408 ==
  /\ attempt <= MaxAttemptsOf(handler)
  /\ remote.exhausted => (pc = "raised" /\ response.http = 408)

TerminalStatuses ==
  {"accepted", "partial", "wrong_answer", "compilation_error",
   "runtime_error_(nzec)", "internal_error", "error"}

\* C17: every Submission record that submit_challenge inserted with status
\* "running" eventually holds a terminal status, whatever goes wrong while
\* remote submissions are created or polled.
C17_EventuallyTerminal ==
  (submission.status = "running") ~> (submission.status \in TerminalStatuses)

C17_Witness ==
  /\ handler = "submit_challenge"
  /\ pc = "raised"
  /\ remote.created = 2
  /\ Len(test_results) = 1
  /\ submission.status = "error"

\* the request carries a language tag its execution path does not know
Unsupported ==
  \/ workload = "problems" /\ language \notin {"python", "cpp", "javascript"}
  \/ /\ workload = "remote"
     /\ handler \in {"run_code", "submit_challenge"}
     /\ LowerTok(language) \notin DOMAIN LANGUAGE_IDS
  \/ /\ workload = "remote"
     /\ handler \in {"submit_code", "verify_solution"}
     /\ LowerTok(language) \notin DOMAIN JUDGE0_LANGUAGE_IDS

\* C18: a request with an unsupported language tag is rejected with HTTP 400
\* before any child process is spawned and before any remote submission is
\* created (run_code, submit_challenge, MultiLangExecutor.execute,
\* Judge0Service.submit_code).
C18_UnsupportedLanguageIs400 ==
  Unsupported
    => /\ spawned = 0
       /\ remote.created = 0
       /\ pc \in {"returned", "raised"} => response.http = 400

\* the fields of a test_result that carry test-case or program text
ContentFields == {"input", "expected_output", "actual_output"}

\* other contents a hidden test case could have
OtherHiddenCases ==
  [input : {<<"in", 0>>, <<"secret">>}, expected_output : {<<"a">>, <<"z">>},
   is_hidden : {TRUE}, points : {10}]

\* no entry of rs for a hidden test case of tcs carries a content field
WithholdsHidden(rs, tcs) ==
  \A k \in 1..Len(rs) :
    tcs[k].is_hidden => DOMAIN rs[k] \cap ContentFields = {}

\* C19: for every hidden test case the response payload and the stored
\* test_results of submit_challenge carry no input, expected output or
\* actual output, and verify_solution returns only counts and a verdict; a
\* run with other contents of a hidden test case and another program output
\* on it, and the same status, builds the same entry.
C19_HiddenCasesWithheld ==
  /\ (workload = "remote" /\ handler = "submit_challenge")
       => /\ WithholdsHidden(test_results, test_cases)
          /\ WithholdsHidden(response.test_results, test_cases)
          /\ WithholdsHidden(submission.test_results, test_cases)
          /\ \A k \in 1..Len(test_results) :
               test_cases[k].is_hidden
                 => \A tc \in OtherHiddenCases :
                      \A res \in PollReplies :
                        get_status_description(res.status_id)
                            = test_results[k].status
                          => ChallengeTestResult(k - 1, tc, res)
                               = test_results[k]
  /\ (workload = "remote" /\ handler = "verify_solution"
        /\ pc = "returned")
       => /\ response.test_results = <<>>
          /\ DOMAIN response \cap ContentFields = {}

C19_Witness ==
  /\ ChallengeReturned
  /\ Len(test_cases) = 2
  /\ test_cases[1].is_hidden
  /\ ~test_cases[2].is_hidden
  /\ Len(response.test_results) = 2
  /\ response.test_results[2].actual_output = <<"b">>
  /\ response.test_results[1].is_hidden

\* C20: a non-success HTTP answer of the remote service to a create or a
\* poll ends run_code and submit_challenge with HTTP 500, and in
\* submit_challenge with the record in status "error": never with a
\* runtime_error, wrong_answer or partial verdict.
C20_RemoteFailureIsInternalError ==
  (workload = "remote" /\ handler \in {"run_code", "submit_challenge"}
     /\ remote.refused)
    => /\ pc = "raised"
       /\ response.http = 500
       /\ response.verdict = ""
       /\ handler = "submit_challenge" => submission.status = "error"

C20_Witness ==
  /\ workload = "remote"
  /\ handler = "submit_challenge"
  /\ remote.refused
  /\ remote.created = 1
  /\ attempt > 0
  /\ submission.status = "error"
  /\ response.http = 500

\* C21: in the test-case loop of submit_solution, submit_module_solution and
\* practice submit_code, an execution that ends in a runtime error, a compile
\* error, a timeout or a strategy-level exception (interpreter or compiler
\* not found) gives exactly one outcome with passed = false and never aborts
\* the run; the loop goes on unless the early-stop rule applies.
C21_ErrorsBecomeOutcomes ==
  workload \in {"problems", "practice"}
    => /\ executions > 0 => pc # "raised"
       /\ Len(test_results) >= executions
       /\ \A k \in 1..executions :
            host_log[k].kind # "exit0"
              => k <= Len(test_results) /\ ~test_results[k].passed
       /\ (pc = "returned" /\ executions > 0 /\ ~early_stopped)
            => executions = Len(test_cases)

\* a call of an execution strategy has ended, by a result or an exception
CallEnded == workload = "execute" /\ pc \in {"returned", "raised"}

\* C22: after any local execution call has returned or raised, every
\* temporary source file, input file and compiled binary the call created
\* has been deleted.
C22_TemporaryFilesDeleted == CallEnded => call.files = {}

\* C23: every local execution call eventually returns an execution result,
\* and no child process it spawned is running when it returns: each was
\* seen to exit or was killed when its timeout expired.
C23_CallReturnsWithNoChild ==
  (workload = "execute" /\ pc = "idle")
    ~> (pc = "returned" /\ call.procs = {})

\* outcome tr is the one of test case k (1-based) of the list tcs
OutcomeOf(tr, k, tcs) ==
  /\ tr.test_number = k
  /\ tr.input_data = tcs[k].input
  /\ tr.expected_output = tcs[k].output

WithStderr(rs, log, err) ==
  [k \in 1..Len(rs) |->
     IF k <= Len(log) /\ log[k].kind = "exitN"
     THEN [rs[k] EXCEPT !.error = Some(err)]
     ELSE rs[k]]

\* C25: the verdict of submit_solution and submit_module_solution depends
\* only on the execution statuses and pass flags of the test cases: TLE only
\* if some executed test case had status timeout, CE only if some had status
\* compile_error, and the same verdict whatever text was written to stderr.
C25_VerdictIgnoresStderr ==
  (workload = "problems" /\ RanTests)
    => /\ response.verdict = "TLE"
            => \E k \in 1..Len(host_log) : host_log[k].status = "timeout"
       /\ response.verdict = "CE"
            => \E k \in 1..Len(host_log) :
                 host_log[k].status = "compile_error"
       /\ \A err \in Stderrs \ {<<>>} :
            JudgeVerdict(all_passed, WithStderr(test_results, host_log, err))
              = response.verdict

\* the problems of the contest for which the list subs holds an accepted
\* submission
SolvedProblems(subs) ==
  {p \in 0..(Len(ContestProblems) - 1) : ExistingAccepted(subs, p)}

\* C26: for any interleaving of concurrent submit_contest_solution requests
\* of one participant, the points of a problem are added to the
\* participation at most once, and the record of every request that
\* returned is in problem_submissions.
C26_ConcurrentSubmissionsKept ==
  (workload = "race" /\ ~audit.disqualified)
    => /\ participation.total_points
            <= ProblemPoints
                 * Cardinality(SolvedProblems(participation.problem_submissions))
       /\ participation.problems_solved
            <= Cardinality(SolvedProblems(participation.problem_submissions))
       /\ Len(participation.problem_submissions) = audit.committed

\* C30: once disqualify_user has disqualified a participation,
\* is_disqualified stays true and total_points and problems_solved stay 0
\* in every later state, and disqualified_at and the reason keep their first
\* values.
C30_DisqualificationSticks ==
  audit.disqualified
    => /\ participation.is_disqualified
       /\ participation.total_points = 0
       /\ participation.problems_solved = 0
       /\ participation.disqualified_at = audit.at
       /\ participation.disqualification_reason = audit.reason

\* The step that ends a pass of update_contest_statuses without error.
PassCompletes == sched.pc = "complete" /\ sched'.pc = "idle" /\ sched'.last = "done"

\* C29: when a pass of ContestScheduler.update_contest_statuses that captured
\* the time `now` completes without error, a contest that was stored when the
\* pass began and has now >= end_time has
\* status completed and a contest with start_time <= now < end_time has status
\* ongoing or completed, also when the contest was still upcoming after its
\* end_time.
C29_PassSettlesStatus ==
  [][ (PassCompletes /\ sched.existed)
      => /\ sched.now >= contest.end_time => contest'.status = "completed"
         /\ (contest.start_time <= sched.now /\ sched.now < contest.end_time)
              => contest'.status \in {"ongoing", "completed"} ]_vars

\* The part of C29 that holds: a contest that a pass found ongoing, or that
\* it started, is settled by that pass.
PassSettlesStarted ==
  [][ (PassCompletes /\ sched.found)
      => contest'.status = (IF sched.now >= contest.end_time
                            THEN "completed" ELSE "ongoing") ]_vars

\* The XP a user has been given in all: what the levels gained have
\* consumed, and what is left.
XpEarned(u) == u.xp + (XpPerLevel \div 2) * u.level * (u.level - 1)

\* C27: the finalization rewards of the contest (XP, coins, the increment of
\* total_contests_participated) are applied to the participant at most once,
\* whatever get_contests calls, finalize_contest calls and failures part-way
\* through a finalization occur.
C27_RewardsAppliedOnce ==
  /\ user.total_contests_participated <= 1
  /\ XpEarned(user) <= FirstPlaceXp
  /\ user.coins <= FirstPlaceCoins

\* The same, for histories in which at most one finalization was begun.
RewardsOfOneFinalization ==
  audit.finalizations <= 1 => C27_RewardsAppliedOnce

StatusRank(st) ==
  IF st = "completed" THEN 3
  ELSE IF st = "ongoing" THEN 2
       ELSE IF st = "upcoming" THEN 1 ELSE 0

\* C28: no step returns the contest to an earlier status on the way
\* upcoming, ongoing, completed, and is_results_published never goes from
\* true back to false.
C28_StatusOnlyMovesForward ==
  [][ /\ StatusRank(contest'.status) >= StatusRank(contest.status)
      /\ contest.is_results_published => contest'.is_results_published ]_vars

\* The same for the status alone.
StatusNeverRegresses ==
  [][StatusRank(contest'.status) >= StatusRank(contest.status)]_vars
====
